---- MODULE Spec2Model ----
(***************************************************************************)
(* Model of md2adf/converter.py: the conversion of a mistune token tree    *)
(* (nested formatting) into an ADF document (flat marks on text leaves).   *)
(*                                                                         *)
(* Python dicts are records whose fields are the keys that are present, so *)
(* an omitted key ("marks", "attrs", "content") is an absent field.  None  *)
(* is the record NoneVal.  Lists are sequences, strings passed through     *)
(* unchanged are TLA+ strings, and the markdown text, which convert()      *)
(* inspects, is a sequence of characters.  A KeyError raised by a missing  *)
(* key is the outcome pc = "raised".                                       *)
(***************************************************************************)
EXTENDS Integers, Sequences, FiniteSets, TLC

VARIABLES
    func,        \* the function under call
    source,      \* convert's argument, the markdown text (a sequence of characters)
    tree,        \* the token tree: the argument, or what the parser returned
    pc,          \* "call" | "returned" | "raised"
    returned,    \* the value returned (NoneVal before the return)
    parserCalls  \* how many times _md was invoked

vars == <<func, source, tree, pc, returned, parserCalls>>

NoneVal == [none |-> TRUE]

(***************************************************************************)
(* Bounds of the input sets.                                               *)
(***************************************************************************)
MaxNodes == 3     \* nodes of an inline forest passed to _convert_inlines
MaxBlocks == 3    \* nodes of a block forest passed to _convert_blocks
MaxDocBlocks == 2 \* nodes of the block forest the parser returns to convert
MaxCols == 1      \* columns of a table
MaxRows == 2      \* body rows of a table
MaxLen == 2       \* characters of a markdown string

(***************************************************************************)
(* Source tokens, in the shapes mistune's AST renderer gives them.         *)
(***************************************************************************)
Text(raw) == [type |-> "text", raw |-> raw]
CodeSpan(raw) == [type |-> "codespan", raw |-> raw]
SoftBreak == [type |-> "softbreak"]
LineBreak == [type |-> "linebreak"]
InlineHtml == [type |-> "inline_html", raw |-> "<b>"]
Span(t, children) == [type |-> t, children |-> children]
Link(url, children) ==
    [type |-> "link", attrs |-> [url |-> url], children |-> children]
Image(url, children) ==
    [type |-> "image", attrs |-> [url |-> url], children |-> children]

SpanTypes == {"strong", "emphasis", "strikethrough"}

(***************************************************************************)
(* _convert_inlines                                                        *)
(***************************************************************************)
\* marks + [mark] with the new mark put first
PrependMark(marks, mark) == <<mark>> \o marks

\* marks + [mark]
AddMark(marks, mark) == Append(marks, mark)

LinkMark(url) == [type |-> "link", attrs |-> [href |-> url]]

\* the marks key set whatever the context
TextNodeAlwaysMarked(text, marks) ==
    [type |-> "text", text |-> text, marks |-> marks]

\* node = {"type": "text", "text": ...}; if marks: node["marks"] = list(marks)
TextNode(text, marks) ==
    IF marks # <<>>
    THEN [type |-> "text", text |-> text, marks |-> marks]
    ELSE [type |-> "text", text |-> text]

\* the general omit-if-empty rule applied to a code span
CodeNodeOmitIfEmpty(raw, marks) ==
    IF marks # <<>>
    THEN [type |-> "text", text |-> raw, marks |-> AddMark(marks, [type |-> "code"])]
    ELSE [type |-> "text", text |-> raw]

\* node["marks"] = marks + [{"type": "code"}]
CodeNode(raw, marks) ==
    [type |-> "text", text |-> raw, marks |-> AddMark(marks, [type |-> "code"])]

\* alt_text = alt_children[0]["raw"] if alt_children else url
ImageNode(token, marks) ==
    LET url == token.attrs.url
        alt_children == IF "children" \in DOMAIN token THEN token.children ELSE <<>>
        alt_text == IF alt_children # <<>> THEN alt_children[1].raw ELSE url
    IN  [type |-> "text", text |-> alt_text, marks |-> AddMark(marks, LinkMark(url))]

\* the lookup alt_children[0]["raw"] on a first child that has no "raw" key
ImageRaises(token) ==
    LET alt_children == IF "children" \in DOMAIN token THEN token.children ELSE <<>>
    IN  alt_children # <<>> /\ "raw" \notin DOMAIN alt_children[1]

\* result.extend(nodes) putting the new nodes first
ExtendFront(result, nodes) == nodes \o result

\* result.extend(nodes)
Extend(result, nodes) == result \o nodes

RECURSIVE ConvertInlinesFrom(_, _, _, _)
RECURSIVE ConvertInlines(_, _)

\* one iteration of the loop over children: the result list after the token
ConvertInline(token, marks, result) ==
    LET t == token.type
    IN  CASE t = "text" -> Append(result, TextNode(token.raw, marks))
          [] t = "strong" ->
                Extend(result, ConvertInlines(token.children,
                                   AddMark(marks, [type |-> "strong"])))
          [] t = "emphasis" ->
                Extend(result, ConvertInlines(token.children,
                                   AddMark(marks, [type |-> "em"])))
          [] t = "strikethrough" ->
                Extend(result, ConvertInlines(token.children,
                                   AddMark(marks, [type |-> "strike"])))
          [] t = "link" ->
                Extend(result, ConvertInlines(token.children,
                                   AddMark(marks, LinkMark(token.attrs.url))))
          [] t = "image" -> Append(result, ImageNode(token, marks))
          [] t = "codespan" -> Append(result, CodeNode(token.raw, marks))
          [] t = "softbreak" -> Append(result, TextNode(" ", marks))
          [] t = "linebreak" -> Append(result, [type |-> "hardBreak"])
          [] OTHER -> result

\* the loop "for token in children", from its i-th token on
ConvertInlinesFrom(children, marks, i, result) ==
    IF i > Len(children)
    THEN result
    ELSE ConvertInlinesFrom(children, marks, i + 1,
                            ConvertInline(children[i], marks, result))

\* _convert_inlines(children, marks): result = [], the loop, return result.
\* "marks = marks or []" turns the default None into the empty list, which is
\* what a caller that gives no marks passes here.
ConvertInlines(children, marks) == ConvertInlinesFrom(children, marks, 1, <<>>)

RECURSIVE InlinesRaise(_)
\* whether _convert_inlines(children) ends in a KeyError
InlinesRaise(children) ==
    \E i \in 1..Len(children) :
        LET token == children[i]
        IN  \/ token.type = "image" /\ ImageRaises(token)
            \/ token.type \in SpanTypes \cup {"link"} /\ InlinesRaise(token.children)

(***************************************************************************)
(* Block tokens.                                                           *)
(***************************************************************************)
Paragraph(children) == [type |-> "paragraph", children |-> children]
Heading(level, children) ==
    [type |-> "heading", attrs |-> [level |-> level], children |-> children]
BlockCode(raw) == [type |-> "block_code", raw |-> raw]
FencedCode(raw, info) ==
    [type |-> "block_code", raw |-> raw, attrs |-> [info |-> info]]
BlockQuote(children) == [type |-> "block_quote", children |-> children]
List(ordered, children) ==
    [type |-> "list", attrs |-> [ordered |-> ordered], children |-> children]
ListItem(children) == [type |-> "list_item", children |-> children]
BlockText(children) == [type |-> "block_text", children |-> children]
ThematicBreak == [type |-> "thematic_break"]
BlankLine == [type |-> "blank_line"]
TableCell(children) == [type |-> "table_cell", children |-> children]
TableRow(cells) == [type |-> "table_row", children |-> cells]
TableHead(cells) == [type |-> "table_head", children |-> cells]
TableBody(rows) == [type |-> "table_body", children |-> rows]
Table(children) == [type |-> "table", children |-> children]

(***************************************************************************)
(* _convert_table                                                          *)
(***************************************************************************)
\* {"type": kind, "content": [{"type": "paragraph", "content": cell_content or []}]}
CellNode(kind, cell_token) ==
    [type |-> kind,
     content |-> <<[type |-> "paragraph",
                    content |-> ConvertInlines(cell_token.children, <<>>)]>>]

RECURSIVE ConvertCells(_, _, _, _)
\* the loop "for cell_token in ...": cells.append(...)
ConvertCells(kind, cell_tokens, i, cells) ==
    IF i > Len(cell_tokens)
    THEN cells
    ELSE ConvertCells(kind, cell_tokens, i + 1,
                      Append(cells, CellNode(kind, cell_tokens[i])))

\* rows.append(row) putting the new row first
AppendRowFront(rows, row) == <<row>> \o rows

\* rows.append({"type": "tableRow", "content": cells})
AppendRow(rows, row) == Append(rows, row)

RECURSIVE ConvertBodyRows(_, _, _)
\* the loop "for row_token in child["children"]"
ConvertBodyRows(row_tokens, i, rows) ==
    IF i > Len(row_tokens)
    THEN rows
    ELSE ConvertBodyRows(row_tokens, i + 1,
             AppendRow(rows, [type |-> "tableRow",
                              content |-> ConvertCells("tableCell",
                                              row_tokens[i].children, 1, <<>>)]))

RECURSIVE ConvertTableFrom(_, _, _)
\* the loop "for child in token["children"]"
ConvertTableFrom(children, i, rows) ==
    IF i > Len(children)
    THEN rows
    ELSE LET child == children[i]
         IN  ConvertTableFrom(children, i + 1,
                 CASE child.type = "table_head" ->
                        AppendRow(rows, [type |-> "tableRow",
                                         content |-> ConvertCells("tableHeader",
                                                         child.children, 1, <<>>)])
                   [] child.type = "table_body" ->
                        ConvertBodyRows(child.children, 1, rows)
                   [] OTHER -> rows)

ConvertTable(token) ==
    [type |-> "table", content |-> ConvertTableFrom(token.children, 1, <<>>)]

\* whether _convert_table(token) ends in a KeyError
TableRaises(token) ==
    \E i \in 1..Len(token.children) :
        LET child == token.children[i]
        IN  \/ /\ child.type = "table_head"
               /\ \E j \in 1..Len(child.children) :
                      InlinesRaise(child.children[j].children)
            \/ /\ child.type = "table_body"
               /\ \E r \in 1..Len(child.children) :
                      \E j \in 1..Len(child.children[r].children) :
                          InlinesRaise(child.children[r].children[j].children)

(***************************************************************************)
(* _convert_block, _convert_blocks, _convert_list_item                     *)
(***************************************************************************)
\* a paragraph emitted whatever its content
ParagraphKeepEmpty(content) == [type |-> "paragraph", content |-> content]

\* if content: return {"type": "paragraph", "content": content}; return None
ParagraphBlock(content) ==
    IF content # <<>> THEN [type |-> "paragraph", content |-> content] ELSE NoneVal

\* the language attribute set whenever the attrs hold an info key
CodeBlockAnyInfo(token) ==
    LET raw == IF "raw" \in DOMAIN token THEN token.raw ELSE ""
    IN  IF "attrs" \in DOMAIN token /\ "info" \in DOMAIN token.attrs
        THEN [type |-> "codeBlock", attrs |-> [language |-> token.attrs.info],
              content |-> <<[type |-> "text", text |-> raw]>>]
        ELSE [type |-> "codeBlock", content |-> <<[type |-> "text", text |-> raw]>>]

\* raw = token.get("raw", ""); info = token.get("attrs", {}).get("info");
\* if info: node["attrs"] = {"language": info}
CodeBlock(token) ==
    LET raw == IF "raw" \in DOMAIN token THEN token.raw ELSE ""
        hasInfo == /\ "attrs" \in DOMAIN token
                   /\ "info" \in DOMAIN token.attrs
                   /\ token.attrs.info # ""
    IN  IF hasInfo
        THEN [type |-> "codeBlock", attrs |-> [language |-> token.attrs.info],
              content |-> <<[type |-> "text", text |-> raw]>>]
        ELSE [type |-> "codeBlock", content |-> <<[type |-> "text", text |-> raw]>>]

\* node = {"type": "heading", "attrs": {"level": level}}; if content: node["content"] = content
HeadingBlock(level, content) ==
    IF content # <<>>
    THEN [type |-> "heading", attrs |-> [level |-> level], content |-> content]
    ELSE [type |-> "heading", attrs |-> [level |-> level]]

RECURSIVE ConvertBlock(_)
RECURSIVE ConvertBlocksFrom(_, _, _)
RECURSIVE ConvertListItemFrom(_, _, _)
RECURSIVE ConvertItemsFrom(_, _, _)

\* _convert_blocks(tokens)
ConvertBlocks(tokens) == ConvertBlocksFrom(tokens, 1, <<>>)

\* _convert_list_item(token)
ConvertListItem(token) == ConvertListItemFrom(token.children, 1, <<>>)

\* the loop of _convert_blocks: a node that is not None is appended
\* (_convert_block never returns a list, so result.extend(node) is never run)
ConvertBlocksFrom(tokens, i, result) ==
    IF i > Len(tokens)
    THEN result
    ELSE LET node == ConvertBlock(tokens[i])
         IN  ConvertBlocksFrom(tokens, i + 1,
                 IF node # NoneVal THEN Append(result, node) ELSE result)

\* the loop over a list's children: each list_item becomes a listItem
ConvertItemsFrom(children, i, items) ==
    IF i > Len(children)
    THEN items
    ELSE ConvertItemsFrom(children, i + 1,
             IF children[i].type = "list_item"
             THEN Append(items, [type |-> "listItem",
                                 content |-> ConvertListItem(children[i])])
             ELSE items)

\* a block_text or paragraph child of a list item
ItemParagraph(result, content) ==
    IF content # <<>>
    THEN Append(result, [type |-> "paragraph", content |-> content])
    ELSE result

\* a nested list wrapped in a paragraph of its own
ItemListWrapped(result, node) ==
    Append(result, [type |-> "paragraph", content |-> <<node>>])

\* result.append(_convert_block(child)) for a child of type list
ItemList(result, node) == Append(result, node)

\* the loop of _convert_list_item
ConvertListItemFrom(children, i, result) ==
    IF i > Len(children)
    THEN result
    ELSE LET child == children[i]
         IN  ConvertListItemFrom(children, i + 1,
                 CASE child.type = "block_text" ->
                        ItemParagraph(result, ConvertInlines(child.children, <<>>))
                   [] child.type = "paragraph" ->
                        ItemParagraph(result, ConvertInlines(child.children, <<>>))
                   [] child.type = "list" ->
                        ItemList(result, ConvertBlock(child))
                   [] OTHER ->
                        LET block == ConvertBlock(child)
                        IN  IF block # NoneVal THEN Append(result, block) ELSE result)

\* if content: return {"type": "blockquote", "content": content}; return None
BlockQuoteBlock(content) ==
    IF content # <<>> THEN [type |-> "blockquote", content |-> content] ELSE NoneVal

\* _convert_block(token)
ConvertBlock(token) ==
    LET t == token.type
    IN  CASE t = "paragraph" -> ParagraphBlock(ConvertInlines(token.children, <<>>))
          [] t = "heading" ->
                HeadingBlock(token.attrs.level, ConvertInlines(token.children, <<>>))
          [] t = "block_code" -> CodeBlock(token)
          [] t = "block_quote" -> BlockQuoteBlock(ConvertBlocks(token.children))
          [] t = "list" ->
                [type |-> IF "ordered" \in DOMAIN token.attrs /\ token.attrs.ordered
                          THEN "orderedList" ELSE "bulletList",
                 content |-> ConvertItemsFrom(token.children, 1, <<>>)]
          [] t = "thematic_break" -> [type |-> "rule"]
          [] t = "table" -> ConvertTable(token)
          [] OTHER -> NoneVal

RECURSIVE BlockRaises(_)
\* whether _convert_list_item(token) ends in a KeyError
ListItemRaises(token) ==
    \E i \in 1..Len(token.children) :
        LET child == token.children[i]
        IN  IF child.type \in {"block_text", "paragraph"}
            THEN InlinesRaise(child.children)
            ELSE BlockRaises(child)

\* whether _convert_block(token) ends in a KeyError
BlockRaises(token) ==
    LET t == token.type
    IN  CASE t \in {"paragraph", "heading"} -> InlinesRaise(token.children)
          [] t = "block_quote" ->
                \E i \in 1..Len(token.children) : BlockRaises(token.children[i])
          [] t = "list" ->
                \E i \in 1..Len(token.children) :
                    /\ token.children[i].type = "list_item"
                    /\ ListItemRaises(token.children[i])
          [] t = "table" -> TableRaises(token)
          [] OTHER -> FALSE

\* whether _convert_blocks(tokens) ends in a KeyError
BlocksRaise(tokens) == \E i \in 1..Len(tokens) : BlockRaises(tokens[i])

(***************************************************************************)
(* convert                                                                 *)
(***************************************************************************)
\* characters str.strip() removes (those that Chars can hold among them)
Whitespace == {" ", "\t", "\n", "\r"}

RECURSIVE LStrip(_)
LStrip(s) == IF s # <<>> /\ Head(s) \in Whitespace THEN LStrip(Tail(s)) ELSE s

RECURSIVE RStrip(_)
RStrip(s) ==
    IF s # <<>> /\ s[Len(s)] \in Whitespace
    THEN RStrip(SubSeq(s, 1, Len(s) - 1))
    ELSE s

\* markdown.strip()
Strip(s) == RStrip(LStrip(s))

\* only the empty string counts as empty
EmptyOnly(s) == s = <<>>

\* not markdown or not markdown.strip()
IsBlank(s) == s = <<>> \/ Strip(s) = <<>>

Doc(content) == [version |-> 1, type |-> "doc", content |-> content]

(***************************************************************************)
(* The inputs.  An inline forest is any forest of inline tokens with at    *)
(* most MaxNodes nodes; an image counts as one node whatever its alt       *)
(* children are.  Block forests carry inline content from a few samples.   *)
(***************************************************************************)
InlineLeaves ==
    {Text("a"), CodeSpan("c"), SoftBreak, LineBreak, InlineHtml,
     Image("i", <<>>), Image("i", <<Text("alt")>>),
     Image("i", <<Span("strong", <<Text("alt")>>)>>)}

RECURSIVE InlineTrees(_)
RECURSIVE InlineForests(_)
\* the inline tokens with exactly n nodes
InlineTrees(n) ==
    IF n = 1
    THEN InlineLeaves \cup {Link("u", <<>>)}
    ELSE {Span(t, f) : t \in SpanTypes, f \in InlineForests(n - 1)}
         \cup {Link("u", f) : f \in InlineForests(n - 1)}

\* the sequences of inline tokens with exactly n nodes in all
InlineForests(n) ==
    IF n = 0
    THEN {<<>>}
    ELSE UNION {{<<t>> \o f : t \in InlineTrees(k), f \in InlineForests(n - k)} :
                k \in 1..n}

InlineInputs == UNION {InlineForests(n) : n \in 0..MaxNodes}

sText == <<Text("a")>>
sHtml == <<InlineHtml>>
sMarks == <<Span("strong", <<Text("a")>>), SoftBreak, CodeSpan("c")>>
sBad == <<Image("i", <<Span("emphasis", <<Text("alt")>>)>>)>>

RECURSIVE SeqsOf(_, _)
\* the sequences of exactly n elements of S
SeqsOf(S, n) ==
    IF n = 0 THEN {<<>>} ELSE {Append(q, x) : q \in SeqsOf(S, n - 1), x \in S}

SeqsUpTo(S, n) == UNION {SeqsOf(S, k) : k \in 0..n}

\* a table as the parser gives it: a head, then a body whose rows have the
\* head's number of cells
CellTokens == {TableCell(c) : c \in {<<>>, sText, sBad}}
TableInputs ==
    UNION {{Table(<<TableHead(h), TableBody(b)>>) :
                h \in SeqsOf(CellTokens, c),
                b \in SeqsUpTo({TableRow(r) : r \in SeqsOf(CellTokens, c)}, MaxRows)} :
           c \in 1..MaxCols}

CodeTokens ==
    {BlockCode(r) : r \in {"", "x\n"}}
    \cup {FencedCode(r, i) : r \in {"", "x\n"}, i \in {"", "py"}}

BlockLeaves ==
    {Paragraph(c) : c \in {sHtml, sMarks, sBad}}
    \cup {Heading(2, c) : c \in {sHtml, sMarks}}
    \cup {BlockCode(""), FencedCode("x\n", "py"), ThematicBreak, BlankLine,
          Table(<<TableHead(<<TableCell(sText)>>),
                  TableBody(<<TableRow(<<TableCell(<<>>)>>)>>)>>)}

RECURSIVE BlockTrees(_)
RECURSIVE BlockForests(_)
RECURSIVE ItemForests(_)
RECURSIVE ItemChildForests(_)
\* the block tokens with exactly n nodes
BlockTrees(n) ==
    IF n = 1
    THEN BlockLeaves \cup {BlockQuote(<<>>)}
    ELSE {BlockQuote(f) : f \in BlockForests(n - 1)}
         \cup {List(o, f) : o \in BOOLEAN, f \in ItemForests(n - 1)}

BlockForests(n) ==
    IF n = 0
    THEN {<<>>}
    ELSE UNION {{<<t>> \o f : t \in BlockTrees(k), f \in BlockForests(n - k)} :
                k \in 1..n}

\* the list_item tokens with exactly n nodes
ItemTrees(n) == {ListItem(f) : f \in ItemChildForests(n - 1)}

\* the non-empty sequences of list_item tokens with exactly n nodes in all
ItemForests(n) ==
    UNION {{<<t>> \o f : t \in ItemTrees(k),
                         f \in IF k = n THEN {<<>>} ELSE ItemForests(n - k)} :
           k \in 1..n}

\* the children of a list item: blocks, and block_text for a tight item
ItemChildForests(n) ==
    IF n = 0
    THEN {<<>>}
    ELSE UNION {{<<t>> \o f :
                    t \in BlockTrees(k)
                          \cup (IF k = 1
                                THEN {BlockText(c) : c \in {sHtml, sMarks}}
                                ELSE {}),
                    f \in ItemChildForests(n - k)} :
                k \in 1..n}

BlocksInputs == UNION {BlockForests(n) : n \in 0..MaxBlocks}
BlockInputs == CodeTokens \cup UNION {BlockTrees(n) : n \in 1..MaxBlocks}
ListItemInputs == {ListItem(f) : f \in UNION {ItemChildForests(n) : n \in 0..MaxBlocks}}
ParserOutputs == UNION {BlockForests(n) : n \in 0..MaxDocBlocks}

Chars == {" ", "\n", "x"}
Markdowns == SeqsUpTo(Chars, MaxLen)

(***************************************************************************)
(* The calls.                                                              *)
(***************************************************************************)
Init ==
    /\ pc = "call"
    /\ returned = NoneVal
    /\ parserCalls = 0
    /\ \/ func = "convert" /\ source \in Markdowns /\ tree = <<>>
       \/ func = "_convert_blocks" /\ source = <<>> /\ tree \in BlocksInputs
       \/ func = "_convert_block" /\ source = <<>> /\ tree \in BlockInputs
       \/ func = "_convert_list_item" /\ source = <<>> /\ tree \in ListItemInputs
       \/ func = "_convert_table" /\ source = <<>> /\ tree \in TableInputs
       \/ func = "_convert_inlines" /\ source = <<>> /\ tree \in InlineInputs

\* the end of a call: a KeyError, or the value returned
Finish(raises, value) ==
    IF raises
    THEN pc' = "raised" /\ returned' = NoneVal
    ELSE pc' = "returned" /\ returned' = value

\* convert(markdown) on empty or whitespace-only text
ConvertBlank ==
    /\ func = "convert" /\ pc = "call"
    /\ IsBlank(source)
    /\ Finish(FALSE, Doc(<<>>))
    /\ UNCHANGED <<func, source, tree, parserCalls>>

\* convert(markdown) otherwise: tokens = _md(markdown), any block forest
ConvertParsed ==
    /\ func = "convert" /\ pc = "call"
    /\ ~IsBlank(source)
    /\ \E parsed \in ParserOutputs :
          /\ tree' = parsed
          /\ parserCalls' = parserCalls + 1
          /\ Finish(BlocksRaise(parsed), Doc(ConvertBlocks(parsed)))
    /\ UNCHANGED <<func, source>>

ConvertBlocksCall ==
    /\ func = "_convert_blocks" /\ pc = "call"
    /\ Finish(BlocksRaise(tree), ConvertBlocks(tree))
    /\ UNCHANGED <<func, source, tree, parserCalls>>

ConvertBlockCall ==
    /\ func = "_convert_block" /\ pc = "call"
    /\ Finish(BlockRaises(tree), ConvertBlock(tree))
    /\ UNCHANGED <<func, source, tree, parserCalls>>

ConvertListItemCall ==
    /\ func = "_convert_list_item" /\ pc = "call"
    /\ Finish(ListItemRaises(tree), ConvertListItem(tree))
    /\ UNCHANGED <<func, source, tree, parserCalls>>

ConvertTableCall ==
    /\ func = "_convert_table" /\ pc = "call"
    /\ Finish(TableRaises(tree), ConvertTable(tree))
    /\ UNCHANGED <<func, source, tree, parserCalls>>

ConvertInlinesCall ==
    /\ func = "_convert_inlines" /\ pc = "call"
    /\ Finish(InlinesRaise(tree), ConvertInlines(tree, <<>>))
    /\ UNCHANGED <<func, source, tree, parserCalls>>

Next ==
    \/ ConvertBlank
    \/ ConvertParsed
    \/ ConvertBlocksCall
    \/ ConvertBlockCall
    \/ ConvertListItemCall
    \/ ConvertTableCall
    \/ ConvertInlinesCall

Spec == Init /\ [][Next]_vars

(***************************************************************************)
(* What the claims speak of: the places of an inline forest, the marks of  *)
(* the ancestors of a place, and the nodes of a returned value.            *)
(***************************************************************************)
LeafTypes == {"text", "image", "codespan", "softbreak", "linebreak"}
IsSpan(token) == token.type \in SpanTypes \cup {"link"}

RECURSIVE Paths(_)
\* the places of a forest: index paths leading through formatting containers
Paths(children) ==
    UNION {{<<i>>} \cup (IF IsSpan(children[i])
                          THEN {<<i>> \o q : q \in Paths(children[i].children)}
                          ELSE {}) :
           i \in 1..Len(children)}

RECURSIVE NodeAt(_, _)
NodeAt(children, p) ==
    IF Len(p) = 1
    THEN children[p[1]]
    ELSE NodeAt(children[p[1]].children, Tail(p))

\* the mark a formatting container stands for
MarkOf(token) ==
    CASE token.type = "strong" -> [type |-> "strong"]
      [] token.type = "emphasis" -> [type |-> "em"]
      [] token.type = "strikethrough" -> [type |-> "strike"]
      [] token.type = "link" -> [type |-> "link", attrs |-> [href |-> token.attrs.url]]

RECURSIVE MarksAbove(_, _)
\* the marks of the ancestors of place p, outermost first
MarksAbove(children, p) ==
    IF Len(p) = 1
    THEN <<>>
    ELSE <<MarkOf(children[p[1]])>> \o MarksAbove(children[p[1]].children, Tail(p))

RECURSIVE LeafCount(_)
\* the recognized leaves of a forest
LeafCount(children) ==
    IF children = <<>>
    THEN 0
    ELSE (IF IsSpan(Head(children)) THEN LeafCount(Head(children).children)
          ELSE IF Head(children).type \in LeafTypes THEN 1 ELSE 0)
         + LeafCount(Tail(children))

RECURSIVE LeavesBefore(_, _)
\* the recognized leaves that come before place p in depth-first order
LeavesBefore(children, p) ==
    LeafCount(SubSeq(children, 1, p[1] - 1))
    + (IF Len(p) = 1 THEN 0 ELSE LeavesBefore(children[p[1]].children, Tail(p)))

RECURSIVE Chain(_, _)
\* the forest cut down to place p and its ancestors
Chain(children, p) ==
    IF Len(p) = 1
    THEN <<children[p[1]]>>
    ELSE <<[children[p[1]] EXCEPT !.children = Chain(@, Tail(p))]>>

MarksOn(node) == IF "marks" \in DOMAIN node THEN node.marks ELSE <<>>

RECURSIVE OutNodes(_, _, _)
\* the nodes of a returned sequence, each with its parent's type and the number
\* of its siblings (itself included)
OutNodes(nodes, parent, i) ==
    IF i > Len(nodes)
    THEN {}
    ELSE {[node |-> nodes[i], parent |-> parent, siblings |-> Len(nodes)]}
         \cup (IF "content" \in DOMAIN nodes[i]
               THEN OutNodes(nodes[i].content, nodes[i].type, 1)
               ELSE {})
         \cup OutNodes(nodes, parent, i + 1)

\* the nodes of the value a call returned
ReturnedNodes ==
    CASE func = "convert" -> OutNodes(returned.content, "doc", 1)
      [] func \in {"_convert_blocks", "_convert_inlines"} -> OutNodes(returned, "", 1)
      [] func = "_convert_list_item" -> OutNodes(returned, "listItem", 1)
      [] OTHER -> IF returned = NoneVal THEN {} ELSE OutNodes(<<returned>>, "", 1)

InlinesReturned == func = "_convert_inlines" /\ pc = "returned"

\* the leaf emitted for place p of the forest passed to _convert_inlines
LeafFor(p) == returned[LeavesBefore(tree, p) + 1]

(***************************************************************************)
(* C1.  The text leaf emitted for a source text node carries exactly the   *)
(* marks of the node's strong / emphasis / strikethrough / link ancestors  *)
(* (strong, em, strike, link with the ancestor's url as href), in the      *)
(* order the ancestors were entered, outermost first.                      *)
(***************************************************************************)
C1_MarkOrder ==
    InlinesReturned =>
        \A p \in Paths(tree) :
            NodeAt(tree, p).type = "text" =>
                /\ LeafFor(p).type = "text"
                /\ LeafFor(p).text = NodeAt(tree, p).raw
                /\ MarksOn(LeafFor(p)) = MarksAbove(tree, p)

\* a text nested under two different ancestors has been converted
C1_Witness ==
    /\ InlinesReturned
    /\ \E p \in Paths(tree) :
          /\ NodeAt(tree, p).type = "text"
          /\ Len(p) = 3
          /\ MarksAbove(tree, p)[1] # MarksAbove(tree, p)[2]
          /\ LeafFor(p).marks = MarksAbove(tree, p)

(***************************************************************************)
(* C2.  No text node of a returned value has a marks key holding an empty  *)
(* sequence; a text or soft-break leaf with no enclosing formatting has no *)
(* marks key, and neither has the text node of a code block.  Stated of    *)
(* the document convert returns and of what each function under it         *)
(* returns.                                                                *)
(***************************************************************************)
C2_NoEmptyMarks ==
    pc = "returned" =>
        /\ \A n \in ReturnedNodes :
              /\ (n.node.type = "text" /\ "marks" \in DOMAIN n.node)
                    => n.node.marks # <<>>
              /\ (n.node.type = "text" /\ n.parent = "codeBlock")
                    => "marks" \notin DOMAIN n.node
        /\ func = "_convert_inlines" =>
              \A p \in Paths(tree) :
                  (NodeAt(tree, p).type \in {"text", "softbreak"}
                   /\ MarksAbove(tree, p) = <<>>)
                      => "marks" \notin DOMAIN LeafFor(p)

\* convert returned a document with an unmarked soft-break space beside a
\* marked text
C2_Witness ==
    /\ func = "convert" /\ pc = "returned"
    /\ \E n \in ReturnedNodes :
          n.node.type = "text" /\ n.node.text = " " /\ "marks" \notin DOMAIN n.node
    /\ \E n \in ReturnedNodes : n.node.type = "text" /\ "marks" \in DOMAIN n.node

(***************************************************************************)
(* C3.  The leaf emitted for a codespan is a text node with a marks key:   *)
(* the accumulated context marks followed by the code mark, so exactly     *)
(* [code] when the context is empty.                                       *)
(***************************************************************************)
C3_CodeMark ==
    InlinesReturned =>
        \A p \in Paths(tree) :
            NodeAt(tree, p).type = "codespan" =>
                /\ LeafFor(p).type = "text"
                /\ "marks" \in DOMAIN LeafFor(p)
                /\ LeafFor(p).marks = Append(MarksAbove(tree, p), [type |-> "code"])

\* a codespan with no enclosing formatting has been converted
C3_Witness ==
    /\ InlinesReturned
    /\ \E p \in Paths(tree) :
          /\ NodeAt(tree, p).type = "codespan"
          /\ Len(p) = 1
          /\ LeafFor(p).marks = <<[type |-> "code"]>>

(***************************************************************************)
(* C4.  On an empty or whitespace-only string convert returns exactly      *)
(* {version: 1, type: "doc", content: []} and the parser is not invoked;   *)
(* on every input the returned document has version 1, type "doc" and a    *)
(* content key holding a sequence.                                         *)
(***************************************************************************)
AllWhitespace(s) == \A i \in 1..Len(s) : s[i] \in Whitespace

C4_EmptyDoc ==
    (func = "convert" /\ pc # "call") =>
        /\ AllWhitespace(source) =>
              /\ pc = "returned"
              /\ returned = [version |-> 1, type |-> "doc", content |-> <<>>]
              /\ parserCalls = 0
        /\ pc = "returned" =>
              /\ returned.version = 1
              /\ returned.type = "doc"
              /\ "content" \in DOMAIN returned
              /\ DOMAIN returned.content = 1..Len(returned.content)

\* convert returned on a whitespace-only string of two characters
C4_Witness ==
    /\ func = "convert" /\ pc = "returned"
    /\ Len(source) = 2 /\ AllWhitespace(source)
    /\ returned.content = <<>>
    /\ parserCalls = 0

(***************************************************************************)
(* C5.  The table node emitted for a table lists the header row (cells of  *)
(* type tableHeader) first, then one row of tableCell cells per row of the *)
(* source table body, in the order of the body.                            *)
(***************************************************************************)
RowOf(kind, cell_tokens, row) ==
    /\ row.type = "tableRow"
    /\ Len(row.content) = Len(cell_tokens)
    /\ \A j \in 1..Len(cell_tokens) :
          /\ row.content[j].type = kind
          /\ row.content[j].content[1].content
                = ConvertInlines(cell_tokens[j].children, <<>>)

C5_HeaderFirst ==
    (func = "_convert_table" /\ pc = "returned") =>
        LET head == tree.children[1]
            body == tree.children[2]
            rows == returned.content
        IN  /\ Len(rows) = 1 + Len(body.children)
            /\ RowOf("tableHeader", head.children, rows[1])
            /\ \A k \in 1..Len(body.children) :
                  RowOf("tableCell", body.children[k].children, rows[k + 1])

\* a table with two different body rows has been converted
C5_Witness ==
    /\ func = "_convert_table" /\ pc = "returned"
    /\ Len(tree.children[2].children) = 2
    /\ Len(returned.content) = 3
    /\ returned.content[2] # returned.content[3]
    /\ returned.content[1].content[1].type = "tableHeader"

(***************************************************************************)
(* C6.  Conversion is total: no call of convert, _convert_blocks,          *)
(* _convert_block, _convert_list_item, _convert_table or _convert_inlines  *)
(* on a well-formed tree ends in an error.                                 *)
(***************************************************************************)
C6_Total == pc # "raised"

(***************************************************************************)
(* C7.  A block_code token yields one codeBlock node whose content is one  *)
(* text node holding the raw text unchanged and without marks, also when   *)
(* the raw text is empty; the node has attrs {language: info} exactly when *)
(* the info string is present and non-empty.                               *)
(***************************************************************************)
CodeCount(nodes, type) == Cardinality({i \in 1..Len(nodes) : nodes[i].type = type})

C7_CodeBlock ==
    /\ (func = "_convert_block" /\ pc # "call" /\ tree.type = "block_code") =>
          LET info == IF "attrs" \in DOMAIN tree THEN tree.attrs.info ELSE ""
          IN  /\ pc = "returned"
              /\ returned # NoneVal
              /\ returned.type = "codeBlock"
              /\ returned.content = <<[type |-> "text", text |-> tree.raw]>>
              /\ "attrs" \in DOMAIN returned <=> info # ""
              /\ info # "" => returned.attrs = [language |-> info]
    /\ (func = "_convert_blocks" /\ pc = "returned") =>
          CodeCount(returned, "codeBlock") = CodeCount(tree, "block_code")

\* a block_code token with empty raw text has been converted
C7_Witness ==
    /\ func = "_convert_block" /\ pc = "returned"
    /\ tree.type = "block_code" /\ tree.raw = ""
    /\ "attrs" \in DOMAIN tree /\ tree.attrs.info = ""
    /\ returned.content[1].text = ""

(***************************************************************************)
(* C8.  The content of a list item is, in child order: for a block_text or *)
(* paragraph child, a paragraph node wrapping the inline conversion of its *)
(* children (the same entry for both); for a list child, the converted     *)
(* list itself, as an entry of its own.                                    *)
(***************************************************************************)
\* the entry of a child that is neither inline text nor a list
OtherEntry(child) ==
    IF ConvertBlock(child) = NoneVal THEN <<>> ELSE <<ConvertBlock(child)>>

\* the claim as stated: every block_text or paragraph child gives a paragraph
EntryAsStated(child) ==
    CASE child.type \in {"block_text", "paragraph"} ->
            <<[type |-> "paragraph", content |-> ConvertInlines(child.children, <<>>)]>>
      [] child.type = "list" -> <<ConvertBlock(child)>>
      [] OTHER -> OtherEntry(child)

\* the claim as amended: such a child gives a paragraph unless it converts to
\* no inline node, and then no entry
EntryAmended(child) ==
    CASE child.type \in {"block_text", "paragraph"} ->
            IF ConvertInlines(child.children, <<>>) # <<>>
            THEN <<[type |-> "paragraph",
                    content |-> ConvertInlines(child.children, <<>>)]>>
            ELSE <<>>
      [] child.type = "list" -> <<ConvertBlock(child)>>
      [] OTHER -> OtherEntry(child)

RECURSIVE EntriesAsStated(_)
EntriesAsStated(children) ==
    IF children = <<>>
    THEN <<>>
    ELSE EntryAsStated(Head(children)) \o EntriesAsStated(Tail(children))

RECURSIVE EntriesAmended(_)
EntriesAmended(children) ==
    IF children = <<>>
    THEN <<>>
    ELSE EntryAmended(Head(children)) \o EntriesAmended(Tail(children))

ListItemReturned == func = "_convert_list_item" /\ pc = "returned"

\* C8 as stated
C8_AsStated == ListItemReturned => returned = EntriesAsStated(tree.children)

\* C8 as amended: a block_text or paragraph child whose children convert to
\* no inline node gives no entry
C8_ListItem == ListItemReturned => returned = EntriesAmended(tree.children)

\* an item of a tight text and a nested list became a paragraph and a list
C8_Witness ==
    /\ ListItemReturned
    /\ Len(tree.children) = 2
    /\ tree.children[1].type = "block_text"
    /\ tree.children[2].type = "list"
    /\ Len(returned) = 2
    /\ returned[1].type = "paragraph"
    /\ returned[2].type \in {"bulletList", "orderedList"}

(***************************************************************************)
(* C9.  In a returned value no blockquote has an empty content; a          *)
(* paragraph has an empty content only as the single child of a            *)
(* tableHeader or tableCell, whose paragraph always has a content key; a   *)
(* source paragraph or block quote that converts to no children emits no   *)
(* node.                                                                   *)
(***************************************************************************)
\* whether a block token gives a node, by the policy of its type
Emits(token) ==
    CASE token.type = "paragraph" -> ConvertInlines(token.children, <<>>) # <<>>
      [] token.type = "block_quote" -> ConvertBlocks(token.children) # <<>>
      [] OTHER -> token.type \in {"heading", "block_code", "list",
                                   "thematic_break", "table"}

C9_EmptyPolicies ==
    pc = "returned" =>
        /\ \A n \in ReturnedNodes :
              /\ n.node.type = "blockquote" => n.node.content # <<>>
              /\ (n.node.type = "paragraph" /\ n.node.content = <<>>)
                    => n.parent \in {"tableHeader", "tableCell"} /\ n.siblings = 1
              /\ n.node.type \in {"tableHeader", "tableCell"}
                    => /\ Len(n.node.content) = 1
                       /\ n.node.content[1].type = "paragraph"
                       /\ "content" \in DOMAIN n.node.content[1]
        /\ func = "_convert_block" => (returned = NoneVal <=> ~Emits(tree))
        /\ func = "_convert_blocks" =>
              Len(returned) = Cardinality({i \in 1..Len(tree) : Emits(tree[i])})
        /\ func = "convert" /\ parserCalls > 0 =>
              Len(returned.content) = Cardinality({i \in 1..Len(tree) : Emits(tree[i])})

\* convert dropped an empty paragraph and kept the empty paragraph of a cell
C9_Witness ==
    /\ func = "convert" /\ pc = "returned"
    /\ \E i \in 1..Len(tree) : tree[i].type = "paragraph" /\ ~Emits(tree[i])
    /\ \E n \in ReturnedNodes :
          /\ n.node.type = "paragraph" /\ n.node.content = <<>>
          /\ n.parent = "tableCell"

(***************************************************************************)
(* C10.  _convert_inlines returns one node per recognized leaf (text,      *)
(* image, codespan, softbreak, linebreak) in depth-first left-to-right     *)
(* order; containers and unrecognized types add none; and the node of a    *)
(* leaf is the one the leaf gives under its ancestors alone, whatever its  *)
(* siblings are.                                                           *)
(***************************************************************************)
\* the node is of the kind the leaf token calls for
KindOf(token, node) ==
    CASE token.type \in {"text", "codespan"} -> node.type = "text" /\ node.text = token.raw
      [] token.type = "softbreak" -> node.type = "text" /\ node.text = " "
      [] token.type = "image" -> node.type = "text"
      [] token.type = "linebreak" -> node = [type |-> "hardBreak"]

C10_OneNodePerLeaf ==
    InlinesReturned =>
        /\ Len(returned) = LeafCount(tree)
        /\ \A p \in Paths(tree) :
              NodeAt(tree, p).type \in LeafTypes =>
                  /\ KindOf(NodeAt(tree, p), LeafFor(p))
                  /\ <<LeafFor(p)>> = ConvertInlines(Chain(tree, p), <<>>)

\* a marked text followed by a plain sibling text has been converted
C10_Witness ==
    /\ InlinesReturned
    /\ Len(tree) = 2
    /\ IsSpan(tree[1]) /\ tree[2].type = "text"
    /\ Len(returned) = 2
    /\ "marks" \in DOMAIN returned[1]
    /\ "marks" \notin DOMAIN returned[2]

====
